---- MODULE Spec2Model ----
(***************************************************************************)
(* A model of the teaching-resource analysis pipeline: keyword extraction  *)
(* (keyword_extractor.py), knowledge importance scoring                    *)
(* (knowledge_analyzer.py), literacy scoring (literacy_analyzer.py), the   *)
(* knowledge graph builder (knowledge_graph.py) and the orchestrator       *)
(* (main.py).                                                              *)
(*                                                                         *)
(* Text (keywords, domains, string literals, comments) is a sequence of    *)
(* one-character strings, so that Python's substring test `k in text` is   *)
(* computed.  Weights are floats in the source; here a weight is a natural *)
(* number of units of 0.00001, and float addition rounds its result to     *)
(* MantBits significant bits (round-half-even), as IEEE-754 addition does  *)
(* with 53 bits.  Python lists whose order the source leaves to set or     *)
(* dict iteration are sets here when no operation reads their order.       *)
(***************************************************************************)
EXTENDS Integers, Sequences, FiniteSets, TLC

VARIABLES
    csv_files,        \* what the CSV files on disk hold: [ok, data]
    LOADED_DATA,      \* main.LOADED_DATA: None or the loaded bundle
    enhanced_graph,   \* GRAPH_BUILDER.enhanced_graph: None or a graph
    last              \* the last call made: operation, arguments, outcome

vars == <<csv_files, LOADED_DATA, enhanced_graph, last>>

None == [none |-> TRUE]

-----------------------------------------------------------------------------
(* Bounds of the model *)

\* significant bits a float keeps (53 in the source's doubles)
MantBits == 14
\* longest keyword list handed to a scorer or to the graph builder
MaxKeywords == 3
\* most distinct syntax nodes and texts in one code snippet
MaxNodes == 1
\* longest keyword list handed to enhance_with_keywords on its own
MaxGraphKeywords == 2
\* largest max_depth handed to get_related_knowledge
MaxDepth == 3

-----------------------------------------------------------------------------
(* Sequence helpers *)

Range(s) == {s[i] : i \in 1..Len(s)}

Min(a, b) == IF a <= b THEN a ELSE b

\* s[:n]
Take(s, n) == SubSeq(s, 1, Min(n, Len(s)))

\* all sequences over S of length at most n
SeqsUpTo(S, n) == UNION {[1..k -> S] : k \in 0..n}

\* all orders in which the elements of a finite set can be listed
Orders(S) == {s \in [1..Cardinality(S) -> S] : Range(s) = S}

\* Python: k in text (substring)
IsSubstring(k, text) ==
    \E i \in 0..(Len(text) - Len(k)) : SubSeq(text, i + 1, i + Len(k)) = k

-----------------------------------------------------------------------------
(* Floats: naturals in units of 0.00001, MantBits significant bits *)

RECURSIVE Pow2(_)
Pow2(n) == IF n = 0 THEN 1 ELSE 2 * Pow2(n - 1)

\* the exponent e with n \div 2^e in [2^(MantBits-1), 2^MantBits)
RECURSIVE Exponent(_, _)
Exponent(n, e) == IF n < Pow2(MantBits + e) THEN e ELSE Exponent(n, e + 1)

\* round-to-nearest, ties to even, to MantBits significant bits
RoundSig(n) ==
    IF n < Pow2(MantBits) THEN n
    ELSE LET e == Exponent(n, 0)
             q == n \div Pow2(e)
             r == n % Pow2(e)
             half == Pow2(e) \div 2
             up == \/ r > half
                   \/ r = half /\ q % 2 = 1
         IN  (IF up THEN q + 1 ELSE q) * Pow2(e)

\* Python: a + b on floats
FloatAdd(a, b) == RoundSig(a + b)

\* units per 0.0001: the grain of round(x, 4)
Round4Grain == 10

\* Python: round(x, 4); a value halfway between two grains goes to the even
\* one here, while Python decides such a decimal by its binary expansion
Round4(n) ==
    LET q == n \div Round4Grain
        r == n % Round4Grain
        up == \/ 2 * r > Round4Grain
              \/ 2 * r = Round4Grain /\ q % 2 = 1
    IN  (IF up THEN q + 1 ELSE q) * Round4Grain

-----------------------------------------------------------------------------
(* Text *)

A == <<"a">>
B == <<"b">>
AB == <<"a", "b">>
\* a token that no reference table knows
X == <<"x">>
\* knowledge domains
Pandas == <<"p", "a", "n", "d", "a", "s">>
Numpy == <<"N", "u", "m", "p", "y">>
Stats == <<"s">>
UnknownDomain == <<"?">>

\* a built-in name, the name of a module of this program, a key that is no
\* identifier
LenName == <<"l", "e", "n">>
MainName == <<"m", "a", "i", "n">>
Dashed == <<"a", "-", "b">>

\* the tokens code is written with
Tok == {A, B, AB, X, LenName, MainName, Dashed}

-----------------------------------------------------------------------------
(* data_loader.py: the reference tables *)

\* DataLoader.load_keyword_mapping: one entry per CSV row
KeywordEntry(code, weight) ==
    [indicator_code |-> code, weight |-> weight, parent_indicator |-> "B1"]

\* DataLoader.load_all_data: one weight_mapping entry per weight.csv row
WeightEntry(absolute, name, level) ==
    [absolute_weight |-> absolute, relative_weight |-> absolute,
     name |-> name, level |-> level]

\* DataLoader.load_teaching_corpus: one corpus entry per CSV row
CorpusEntry(domain, keywords, description) ==
    [knowledge_domain |-> domain, keywords |-> keywords,
     description |-> description]

\* networkx.DiGraph(): no nodes, no edges
EmptyGraph == [node |-> << >>, adj |-> {}]

\* n in G
HasNode(G, n) == n \in DOMAIN G.node

\* G.add_node(n, **attrs): a new node, or an update of the node's attributes
AddNode(G, n, attrs) ==
    [G EXCEPT !.node =
        IF HasNode(G, n)
        THEN [G.node EXCEPT ![n] = attrs @@ G.node[n]]
        ELSE G.node @@ (n :> attrs)]

\* G.add_edge(u, v, relation=r): one edge per (u, v); missing ends are created
AddEdge(G, u, v, r) ==
    LET G1 == IF HasNode(G, u) THEN G ELSE AddNode(G, u, << >>)
        G2 == IF HasNode(G1, v) THEN G1 ELSE AddNode(G1, v, << >>)
    IN  [G2 EXCEPT !.adj = {e \in G2.adj : ~(e[1] = u /\ e[2] = v)}
                            \cup {<<u, v, r>>}]

\* DataLoader.load_expert_knowledge: the graph of the rows (head, tail, relation)
RECURSIVE load_expert_knowledge(_)
load_expert_knowledge(rows) ==
    IF rows = <<>> THEN EmptyGraph
    ELSE LET n == Len(rows)
             G == load_expert_knowledge(SubSeq(rows, 1, n - 1))
             row == rows[n]
             G1 == IF HasNode(G, row[1]) THEN G
                   ELSE AddNode(G, row[1], [type |-> "concept"])
             G2 == IF HasNode(G1, row[2]) THEN G1
                   ELSE AddNode(G1, row[2], [type |-> "concept"])
         IN  AddEdge(G2, row[1], row[2], row[3])

\* DataLoader.load_all_data: the bundle main.initialize_system keeps
Bundle(km, wm, corpus, rows) ==
    [keyword_mapping |-> km, weight_mapping |-> wm,
     teaching_corpus |-> corpus, knowledge_graph |-> load_expert_knowledge(rows)]

-----------------------------------------------------------------------------
(* keyword_extractor.py *)

\* the kinds of syntax node and of raw text a snippet is made of
AstKinds == {"Call_Name", "Call_Attribute", "Import", "ImportFrom", "Name",
             "Attribute"}
TextKinds == {"Str", "Comment"}

\* the outcomes of ast.parse(code)
ParseOutcomes == {"ok", "SyntaxError", "RecursionError"}

AstNodeKeywordsNoMethods(n) ==
    IF n.kind \in {"Call_Name", "Import", "Name"} THEN {n.tok}
    ELSE IF n.kind = "ImportFrom" THEN {n.tok, n.name}
    ELSE {}

\* KeywordExtractor._extract_from_ast, one node of ast.walk(tree): the name a
\* call calls, the attribute a call calls, an imported module, the module and
\* a name of a from-import, an identifier; an attribute access adds nothing
AstNodeKeywords(n) ==
    IF n.kind \in {"Call_Name", "Call_Attribute", "Import", "Name"} THEN {n.tok}
    ELSE IF n.kind = "ImportFrom" THEN {n.tok, n.name}
    ELSE {}

\* KeywordExtractor._extract_from_ast (a SyntaxError gives the empty set)
_extract_from_ast(code) ==
    IF code.parse = "ok"
    THEN UNION {AstNodeKeywords(n) : n \in code.nodes}
    ELSE {}

\* whether KeywordExtractor._extract_from_ast raises: it catches SyntaxError only
AstRaises(code) == code.parse = "RecursionError"

\* KeywordExtractor._extract_with_regex: reference keywords that occur in the
\* quoted spans and in the comments of the raw text
_extract_with_regex(code, keyword_mapping) ==
    {k \in DOMAIN keyword_mapping :
        \E n \in code.nodes :
            /\ n.kind \in TextKinds
            /\ IsSubstring(k, n.tok)}

\* list.sort(key=..., reverse=True): stable, descending; keys[i] is the key
\* of s[i]
StableSortDesc(s, keys) ==
    LET n == Len(s)
        pos(i) == 1 + Cardinality({j \in 1..n :
                        \/ keys[j] > keys[i]
                        \/ keys[j] = keys[i] /\ j < i})
    IN  [p \in 1..n |-> s[CHOOSE i \in 1..n : pos(i) = p]]

\* the set KeywordExtractor.extract_from_code collects before it filters
ExtractedTokens(code, keyword_mapping) ==
    _extract_from_ast(code) \cup _extract_with_regex(code, keyword_mapping)

KeepEveryToken(listing, keyword_mapping) == listing

\* KeywordExtractor.extract_from_code, lines 29-30: keep the reference keywords
FilterKeywords(listing, keyword_mapping) ==
    LET known(kw) == kw \in DOMAIN keyword_mapping
    IN  SelectSeq(listing, known)

RankNothing(filtered, keyword_mapping) == filtered

\* KeywordExtractor.extract_from_code, lines 33-38: order by declared weight
RankKeywords(filtered, keyword_mapping) ==
    LET weight(kw) == IF kw \in DOMAIN keyword_mapping
                      THEN keyword_mapping[kw].weight ELSE 0
    IN  StableSortDesc(filtered,
                       [i \in 1..Len(filtered) |-> weight(filtered[i])])

\* KeywordExtractor.extract_from_code; listing is the order in which the set
\* of collected tokens is iterated
extract_from_code(code, listing, keyword_mapping) ==
    RankKeywords(FilterKeywords(listing, keyword_mapping), keyword_mapping)

-----------------------------------------------------------------------------
(* code_analyzer.py *)

\* self_module_prefixes
self_module_prefixes ==
    {<<"c", "o", "d", "e", "_", "a", "n", "a", "l", "y", "z", "e", "r">>,
     <<"k", "n", "o", "w", "l", "e", "d", "g", "e", "_", "g", "r", "a", "p", "h">>,
     <<"n", "l", "p", "_", "p", "r", "o", "c", "e", "s", "s", "o", "r">>,
     <<"d", "a", "t", "a", "_", "l", "o", "a", "d", "e", "r">>,
     <<"w", "e", "i", "g", "h", "t", "_", "a", "n", "a", "l", "y", "z", "e", "r">>,
     <<"m", "a", "i", "n">>}

\* the built-in and common names extract_keywords drops
BuiltinOrCommon ==
    {<<"p", "r", "i", "n", "t">>,
     <<"s", "t", "r">>,
     <<"l", "e", "n">>,
     <<"l", "i", "s", "t">>,
     <<"d", "i", "c", "t">>,
     <<"i", "n", "t">>,
     <<"f", "l", "o", "a", "t">>,
     <<"r", "a", "n", "g", "e">>,
     <<"e", "n", "u", "m", "e", "r", "a", "t", "e">>,
     <<"s", "e", "l", "f">>,
     <<"c", "l", "s">>}

\* Python: kw.startswith(prefix)
StartsWith(kw, prefix) ==
    /\ Len(kw) >= Len(prefix)
    /\ SubSeq(kw, 1, Len(prefix)) = prefix

\* extract_keywords, line 53
is_self_module(kw) == \E prefix \in self_module_prefixes : StartsWith(kw, prefix)

\* extract_keywords, lines 55-56
is_builtin_or_common(kw) == kw \in BuiltinOrCommon

\* the characters an ASCII identifier starts with, and goes on with
IdentifierStart ==
    {"a", "b", "c", "d", "e", "f", "g", "h", "i", "j", "k", "l", "m",
     "n", "o", "p", "q", "r", "s", "t", "u", "v", "w", "x", "y", "z",
     "A", "B", "C", "D", "E", "F", "G", "H", "I", "J", "K", "L", "M",
     "N", "O", "P", "Q", "R", "S", "T", "U", "V", "W", "X", "Y", "Z",
     "_"}
IdentifierPart == IdentifierStart \cup {"0", "1", "2", "3", "4", "5", "6", "7", "8", "9"}

\* Python: kw.isidentifier(), on ASCII text
is_valid_identifier(kw) ==
    /\ kw # <<>>
    /\ kw[1] \in IdentifierStart
    /\ \A i \in 1..Len(kw) : kw[i] \in IdentifierPart

\* extract_keywords, one node of ast.walk(tree): the names of a from-import,
\* an imported module, the name or the attribute a call calls, the name of an
\* attribute access (the function of a method call is one); an identifier
\* adds nothing
AnalyzerNodeKeywords(n) ==
    IF n.kind \in {"Call_Name", "Call_Attribute", "Import", "Attribute"}
    THEN {n.tok}
    ELSE IF n.kind = "ImportFrom" THEN {n.name}
    ELSE {}

\* whether extract_keywords raises: it catches SyntaxError only
AnalyzerRaises(code) == code.parse = "RecursionError"

\* code_analyzer.extract_keywords: the elements of the list it returns
extract_keywords(code) ==
    IF code.parse # "ok" THEN {}
    ELSE {kw \in UNION {AnalyzerNodeKeywords(n) : n \in code.nodes} :
            /\ ~is_self_module(kw)
            /\ ~is_builtin_or_common(kw)
            /\ is_valid_identifier(kw)}

-----------------------------------------------------------------------------
(* knowledge_analyzer.py *)

\* weight_score thresholds of _get_importance_level: 0.08, 0.05, 0.03
HighThreshold == 8000
MediumHighThreshold == 5000
MediumThreshold == 3000
\* weight_score of a record whose indicator lookup misses: 0.1
DefaultWeightScore == 10000
\* important[:5], secondary[:5]
KnowledgeCap == 5
\* important[:3] and secondary[:2] in the suggestions
SuggestImportant == 3
SuggestSecondary == 2

\* concatenation of a sequence of sequences
RECURSIVE Flatten(_)
Flatten(ss) == IF ss = <<>> THEN <<>> ELSE Head(ss) \o Flatten(Tail(ss))

\* number of times x occurs in the sequence s
Count(s, x) == Cardinality({i \in 1..Len(s) : s[i] = x})

\* the sequence of n copies of x
Repeat(x, n) == [i \in 1..n |-> x]

\* KnowledgeAnalyzer._build_corpus_index: corpus_index[keyword]; an item is
\* appended once per occurrence of the keyword in its keyword list
CorpusIndex(teaching_corpus, keyword) ==
    Flatten([i \in 1..Len(teaching_corpus) |->
                Repeat(teaching_corpus[i],
                       Count(teaching_corpus[i].keywords, keyword))])

\* KnowledgeAnalyzer._match_teaching_content, one keyword
MatchKeyword(data, keyword) ==
    LET corpus_items == CorpusIndex(data.teaching_corpus, keyword)
    IN  IF corpus_items # <<>>
        THEN [i \in 1..Len(corpus_items) |->
                [keyword |-> keyword,
                 knowledge_domain |-> corpus_items[i].knowledge_domain,
                 description |-> corpus_items[i].description,
                 corpus_item |-> corpus_items[i]]]
        ELSE <<[keyword |-> keyword,
                knowledge_domain |-> UnknownDomain,
                description |-> "no content",
                corpus_item |-> None]>>

\* KnowledgeAnalyzer._match_teaching_content
_match_teaching_content(data, keywords) ==
    Flatten([i \in 1..Len(keywords) |-> MatchKeyword(data, keywords[i])])

GetImportanceStrict(weight_score) ==
    IF weight_score > HighThreshold THEN "high"
    ELSE IF weight_score > MediumHighThreshold THEN "medium-high"
    ELSE IF weight_score > MediumThreshold THEN "medium"
    ELSE "low"

\* KnowledgeAnalyzer._get_importance_level
_get_importance_level(weight_score) ==
    IF weight_score >= HighThreshold THEN "high"
    ELSE IF weight_score >= MediumHighThreshold THEN "medium-high"
    ELSE IF weight_score >= MediumThreshold THEN "medium"
    ELSE "low"

IndicatorNeverResolves(data, keyword) == FALSE

\* `indicator_code and indicator_code in self.weight_mapping` for a keyword
IndicatorResolves(data, keyword) ==
    /\ keyword \in DOMAIN data.keyword_mapping
    /\ data.keyword_mapping[keyword].indicator_code # ""
    /\ data.keyword_mapping[keyword].indicator_code \in DOMAIN data.weight_mapping

\* a default below every threshold
DefaultScoreBelowTiers ==
    [weight_score |-> 0,
     indicator_name |-> "unclassified",
     indicator_level |-> "unknown"]

\* KnowledgeAnalyzer._calculate_weights, lines 95-98: the lookup missed
DefaultScore ==
    [weight_score |-> DefaultWeightScore,
     indicator_name |-> "unclassified",
     indicator_level |-> "unknown"]

\* KnowledgeAnalyzer._calculate_weights, the loop body for one record
WeighRecord(data, knowledge) ==
    LET keyword == knowledge.keyword
        scored ==
            IF IndicatorResolves(data, keyword)
            THEN LET weight_info ==
                        data.weight_mapping[
                            data.keyword_mapping[keyword].indicator_code]
                 IN  [weight_score |-> weight_info.absolute_weight,
                      indicator_name |-> weight_info.name,
                      indicator_level |-> weight_info.level]
            ELSE DefaultScore
    IN  knowledge @@ scored @@
        [importance |-> _get_importance_level(scored.weight_score)]

\* every record scored, the list left in matching order
WeighWithoutSort(data, knowledge_list) ==
    [i \in 1..Len(knowledge_list) |-> WeighRecord(data, knowledge_list[i])]

\* KnowledgeAnalyzer._calculate_weights: score every record, then sort
_calculate_weights(data, knowledge_list) ==
    LET weighed == [i \in 1..Len(knowledge_list) |->
                        WeighRecord(data, knowledge_list[i])]
    IN  StableSortDesc(weighed,
                       [i \in 1..Len(weighed) |-> weighed[i].weight_score])

CategorizeUncapped(knowledge_list) ==
    LET isImportant(k) == k.importance \in {"high", "medium-high"}
        isSecondary(k) == k.importance \in {"medium", "low"}
    IN  [important |-> SelectSeq(knowledge_list, isImportant),
         secondary |-> SelectSeq(knowledge_list, isSecondary)]

\* KnowledgeAnalyzer._categorize_knowledge
_categorize_knowledge(knowledge_list) ==
    LET isImportant(k) == k.importance \in {"high", "medium-high"}
        isSecondary(k) == k.importance \in {"medium", "low"}
    IN  [important |-> Take(SelectSeq(knowledge_list, isImportant), KnowledgeCap),
         secondary |-> Take(SelectSeq(knowledge_list, isSecondary), KnowledgeCap)]

\* the substrings of a domain name that select a tip
TipNumpy == <<"N", "u", "m", "p", "y">>
TipPandas == <<"p", "a", "n", "d", "a", "s">>
TipSklearn == <<"s", "k", "l", "e", "a", "r", "n">>
TipMatplotlib == <<"M", "a", "t", "p", "l", "o", "t", "l", "i", "b">>

\* KnowledgeAnalyzer._generate_suggestions, the lines of one important item
ImportantLines(knowledge, i) ==
    LET domain == knowledge.knowledge_domain
        tip == IF IsSubstring(TipNumpy, domain) THEN <<"tip: arrays">>
               ELSE IF IsSubstring(TipPandas, domain) THEN <<"tip: datasets">>
               ELSE IF IsSubstring(TipSklearn, domain) THEN <<"tip: algorithms">>
               ELSE IF IsSubstring(TipMatplotlib, domain) THEN <<"tip: charts">>
               ELSE <<>>
    IN  <<[line |-> "item", rank |-> i, keyword |-> knowledge.keyword,
           domain |-> domain],
          [line |-> "description", text |-> knowledge.description]>>
        \o [j \in 1..Len(tip) |-> [line |-> tip[j]]]

\* KnowledgeAnalyzer._generate_suggestions
_generate_suggestions(important, secondary) ==
    LET top == Take(important, SuggestImportant)
        few == Take(secondary, SuggestSecondary)
    IN  (IF important # <<>>
         THEN <<[line |-> "important:"]>>
              \o Flatten([i \in 1..Len(top) |-> ImportantLines(top[i], i)])
         ELSE <<>>)
        \o (IF secondary # <<>>
            THEN <<[line |-> "secondary:"]>>
                 \o [i \in 1..Len(few) |->
                        [line |-> "mention", keyword |-> few[i].keyword]]
            ELSE <<>>)
        \o <<[line |-> "general:"], [line |-> "step by step"],
             [line |-> "practise"], [line |-> "read the documentation"],
             [line |-> "join projects"]>>

\* the keywords that resolve, the first one only for every indicator
RECURSIVE SummaryOncePerIndicator(_, _)
SummaryOncePerIndicator(data, keywords) ==
    IF keywords = <<>> THEN <<>>
    ELSE LET front == SubSeq(keywords, 1, Len(keywords) - 1)
             kw == keywords[Len(keywords)]
             code(k) == data.keyword_mapping[k].indicator_code
             kept == SummaryOncePerIndicator(data, front)
         IN  IF /\ kw \in DOMAIN data.keyword_mapping
                /\ code(kw) \in DOMAIN data.weight_mapping
                /\ \A i \in 1..Len(kept) : code(kept[i]) # code(kw)
             THEN Append(kept, kw)
             ELSE kept

\* KnowledgeAnalyzer._calculate_weight_summary: the keywords that contribute
SummaryKeywords(data, keywords) ==
    LET resolves(kw) ==
            /\ kw \in DOMAIN data.keyword_mapping
            /\ data.keyword_mapping[kw].indicator_code
                   \in DOMAIN data.weight_mapping
    IN  SelectSeq(keywords, resolves)

\* total_weight += w over a list of weights, from the integer 0
RECURSIVE SumWeights(_)
SumWeights(ws) ==
    IF ws = <<>> THEN 0
    ELSE FloatAdd(SumWeights(SubSeq(ws, 1, Len(ws) - 1)), ws[Len(ws)])

\* KnowledgeAnalyzer._calculate_weight_summary
_calculate_weight_summary(data, keywords) ==
    LET matched == SummaryKeywords(data, keywords)
        info(i) == data.weight_mapping[
                       data.keyword_mapping[matched[i]].indicator_code]
    IN  [count |-> Len(matched),
         total_weight |->
            Round4(SumWeights([i \in 1..Len(matched) |-> info(i).absolute_weight])),
         indicators |-> [i \in 1..Len(matched) |->
                            [name |-> info(i).name,
                             relative_weight |-> info(i).relative_weight]]]

\* KnowledgeAnalyzer._empty_result
KnowledgeEmptyResult ==
    [important_knowledge |-> <<>>,
     secondary_knowledge |-> <<>>,
     learning_suggestions |-> <<[line |-> "no keywords detected"]>>,
     weight_summary |-> [count |-> 0, total_weight |-> 0, indicators |-> <<>>],
     total_analyzed |-> 0]

\* KnowledgeAnalyzer.analyze_knowledge_importance, lines 33-54
AnalyzeKnowledge(data, keywords) ==
    LET matched_knowledge == _match_teaching_content(data, keywords)
        knowledge_with_weights == _calculate_weights(data, matched_knowledge)
        parts == _categorize_knowledge(knowledge_with_weights)
    IN  [important_knowledge |-> parts.important,
         secondary_knowledge |-> parts.secondary,
         learning_suggestions |->
            _generate_suggestions(parts.important, parts.secondary),
         weight_summary |-> _calculate_weight_summary(data, keywords),
         total_analyzed |-> Len(knowledge_with_weights)]

AnalyzeWithoutEmptyGuard(data, keywords) == AnalyzeKnowledge(data, keywords)

\* KnowledgeAnalyzer.analyze_knowledge_importance
analyze_knowledge_importance(data, keywords) ==
    IF keywords = <<>>
    THEN KnowledgeEmptyResult
    ELSE AnalyzeKnowledge(data, keywords)

-----------------------------------------------------------------------------
(* literacy_analyzer.py *)

\* list.append(x), whatever the list holds
AppendAlways(s, x) == Append(s, x)

\* list.append(x) unless x is already in the list
AppendNew(s, x) == IF x \in Range(s) THEN s ELSE Append(s, x)

\* LiteracyAnalyzer._get_matched_indicators
RECURSIVE _get_matched_indicators(_, _)
_get_matched_indicators(keywords, keyword_mapping) ==
    IF keywords = <<>> THEN <<>>
    ELSE LET n == Len(keywords)
             indicators ==
                _get_matched_indicators(SubSeq(keywords, 1, n - 1), keyword_mapping)
         IN  IF keywords[n] \in DOMAIN keyword_mapping
             THEN AppendNew(indicators, keyword_mapping[keywords[n]].indicator_code)
             ELSE indicators

\* the indicators LiteracyAnalyzer._calculate_dimension_scores accumulates
ScoredIndicators(weight_mapping, matched_indicators) ==
    LET inTable(indicator) == indicator \in DOMAIN weight_mapping
    IN  SelectSeq(matched_indicators, inTable)

\* the order in which the levels enter the dimension_scores dict
RECURSIVE LevelOrder(_, _)
LevelOrder(weight_mapping, scored) ==
    IF scored = <<>> THEN <<>>
    ELSE LET n == Len(scored)
         IN  AppendNew(LevelOrder(weight_mapping, SubSeq(scored, 1, n - 1)),
                       weight_mapping[scored[n]].level)

\* LiteracyAnalyzer._calculate_dimension_scores: per level, 0 += weight in
\* the order of the matched indicators
_calculate_dimension_scores(weight_mapping, matched_indicators) ==
    LET scored == ScoredIndicators(weight_mapping, matched_indicators)
        ofLevel(level) ==
            LET hasLevel(indicator) == weight_mapping[indicator].level = level
                mine == SelectSeq(scored, hasLevel)
            IN  [i \in 1..Len(mine) |-> weight_mapping[mine[i]].absolute_weight]
    IN  [level \in Range(LevelOrder(weight_mapping, scored)) |->
            SumWeights(ofLevel(level))]

\* LiteracyAnalyzer._get_level_name: the static table, else the raw code
_get_level_name(level_code) ==
    CASE level_code = "B1" -> "systemic cognition"
      [] level_code = "B2" -> "constructive ability"
      [] level_code = "B3" -> "creation and critique"
      [] level_code = "B4" -> "humanity and responsibility"
      [] level_code = "C11" -> "data and knowledge"
      [] level_code = "C12" -> "algorithms and models"
      [] level_code = "C13" -> "computing and systems"
      [] level_code = "C14" -> "crossover and application"
      [] level_code = "C15" -> "trust and safety"
      [] level_code = "C21" -> "problem abstraction"
      [] level_code = "C22" -> "decomposition"
      [] level_code = "C23" -> "tool selection"
      [] level_code = "C24" -> "validation and iteration"
      [] level_code = "C25" -> "explanation and communication"
      [] OTHER -> level_code

\* LiteracyAnalyzer._get_top_dimension; order is the dict's insertion order,
\* and max() keeps the first of the largest
_get_top_dimension(dimension_scores, order) ==
    IF DOMAIN dimension_scores = {}
    THEN [name |-> "none", score |-> 0]
    ELSE LET i == CHOOSE i \in 1..Len(order) :
                    /\ \A j \in 1..Len(order) :
                           dimension_scores[order[j]] <= dimension_scores[order[i]]
                    /\ \A j \in 1..(i - 1) :
                           dimension_scores[order[j]] < dimension_scores[order[i]]
         IN  [name |-> _get_level_name(order[i]),
              code |-> order[i],
              score |-> Round4(dimension_scores[order[i]])]

\* LiteracyAnalyzer._generate_analysis_summary
_generate_analysis_summary(keywords, matched_indicators, dimension_scores, order, top_dimension) ==
    LET sorted == StableSortDesc(order,
                      [i \in 1..Len(order) |-> dimension_scores[order[i]]])
    IN  <<[line |-> "counts", keywords |-> Len(keywords),
           indicators |-> Len(matched_indicators)]>>
        \o (IF top_dimension.name # "none"
            THEN <<[line |-> "top", name |-> top_dimension.name,
                    score |-> top_dimension.score]>>
            ELSE <<>>)
        \o (IF DOMAIN dimension_scores # {}
            THEN <<[line |-> "scores:"]>>
                 \o [i \in 1..Len(sorted) |->
                        [line |-> "score", name |-> _get_level_name(sorted[i]),
                         score |-> Round4(dimension_scores[sorted[i]])]]
            ELSE <<>>)

\* LiteracyAnalyzer._generate_detailed_analysis
_generate_detailed_analysis(keywords) ==
    [i \in 1..Len(keywords) |->
        [keyword |-> keywords[i], matched_indicator |-> None, weight |-> 0]]

\* LiteracyAnalyzer._empty_result
LiteracyEmptyResult ==
    [top_dimension |-> [name |-> "none", score |-> 0],
     dimension_scores |-> << >>,
     matched_indicators |-> <<>>,
     analysis_summary |-> <<[line |-> "no keywords detected"]>>,
     detailed_analysis |-> <<>>]

\* LiteracyAnalyzer.analyze_literacy
analyze_literacy(data, keywords) ==
    IF keywords = <<>>
    THEN LiteracyEmptyResult
    ELSE LET matched_indicators ==
                _get_matched_indicators(keywords, data.keyword_mapping)
             dimension_scores ==
                _calculate_dimension_scores(data.weight_mapping, matched_indicators)
             order == LevelOrder(data.weight_mapping,
                         ScoredIndicators(data.weight_mapping, matched_indicators))
             top_dimension == _get_top_dimension(dimension_scores, order)
         IN  [top_dimension |-> top_dimension,
              dimension_scores |-> dimension_scores,
              matched_indicators |-> matched_indicators,
              analysis_summary |->
                 _generate_analysis_summary(keywords, matched_indicators,
                     dimension_scores, order, top_dimension),
              detailed_analysis |-> _generate_detailed_analysis(keywords)]

-----------------------------------------------------------------------------
(* knowledge_graph.py *)

\* paths[:5]
PathCap == 5
\* get_related_knowledge(keyword, max_depth=2)
DefaultMaxDepth == 2

\* node_data.get(key, default)
Get(attrs, key, default) == IF key \in DOMAIN attrs THEN attrs[key] ELSE default

\* [item for item in teaching_corpus if keyword in item['keywords']]
RelatedCorpus(teaching_corpus, keyword) ==
    LET lists(item) == keyword \in Range(item.keywords)
    IN  SelectSeq(teaching_corpus, lists)

\* enhance_with_keywords, lines 32-35: the belongs_to edges of one keyword
RECURSIVE ConnectDomains(_, _, _)
ConnectDomains(G, keyword, related_corpus) ==
    IF related_corpus = <<>> THEN G
    ELSE LET n == Len(related_corpus)
             G1 == ConnectDomains(G, keyword, SubSeq(related_corpus, 1, n - 1))
             domain == related_corpus[n].knowledge_domain
         IN  IF HasNode(G1, domain)
             THEN AddEdge(G1, keyword, domain, "belongs_to")
             ELSE G1

\* the attributes enhance_with_keywords gives a keyword node
KeywordNodeAttrs(related_corpus) ==
    [type |-> "keyword",
     descriptions |-> [i \in 1..Len(related_corpus) |->
                          related_corpus[i].description],
     domains |-> {related_corpus[i].knowledge_domain :
                     i \in 1..Len(related_corpus)}]

EnhanceOneUpdating(G, keyword, teaching_corpus) ==
    LET related_corpus == RelatedCorpus(teaching_corpus, keyword)
        attrs == KeywordNodeAttrs(related_corpus)
        G1 == IF ~HasNode(G, keyword)
              THEN AddNode(G, keyword, attrs)
              ELSE AddNode(G, keyword,
                     [descriptions |->
                        Get(G.node[keyword], "descriptions", <<>>)
                            \o attrs.descriptions])
    IN  ConnectDomains(G1, keyword, related_corpus)

\* enhance_with_keywords, the loop body for one keyword
EnhanceOne(G, keyword, teaching_corpus) ==
    LET related_corpus == RelatedCorpus(teaching_corpus, keyword)
        G1 == IF ~HasNode(G, keyword)
              THEN AddNode(G, keyword, KeywordNodeAttrs(related_corpus))
              ELSE G
    IN  ConnectDomains(G1, keyword, related_corpus)

\* the graph of the call before, once there is one
EnhanceFromPrevious(graph, previous) ==
    IF previous = None THEN graph ELSE previous

\* enhance_with_keywords, line 15: enhanced = self.graph.copy(); the graph a
\* call builds on is the static graph, whatever self.enhanced_graph holds
EnhanceBase(graph, previous) == graph

GraphSharedWithEnhanced(graph, enhanced) == enhanced

\* enhance_with_keywords, line 15: self.graph after the call; the call works
\* on a copy, so the static graph of the loaded data is what it was
StaticGraphAfterEnhance(graph, enhanced) == graph

\* the loaded data after enhance_with_keywords: the builder's self.graph is
\* the knowledge_graph of the loaded data, the other tables are read
DataAfterEnhance(data, enhanced) ==
    [data EXCEPT !.knowledge_graph =
        StaticGraphAfterEnhance(data.knowledge_graph, enhanced)]

\* KnowledgeGraphBuilder.enhance_with_keywords: the graph it returns and
\* stores, built on a copy of the static graph
RECURSIVE enhance_with_keywords(_, _, _)
enhance_with_keywords(graph, keywords, teaching_corpus) ==
    IF keywords = <<>> THEN graph
    ELSE LET n == Len(keywords)
         IN  EnhanceOne(
                enhance_with_keywords(graph, SubSeq(keywords, 1, n - 1),
                                      teaching_corpus),
                keywords[n], teaching_corpus)

\* the successors of the nodes of S
Successors(G, S) == {e[2] : e \in {e \in G.adj : e[1] \in S}}

\* the nodes within `radius` directed hops of n: the nodes of nx.ego_graph
RECURSIVE EgoNodes(_, _, _)
EgoNodes(G, n, radius) ==
    IF radius <= 0 THEN {n}
    ELSE LET near == EgoNodes(G, n, radius - 1)
         IN  near \cup Successors(G, near)

\* the number of edges on a shortest directed path from n to target
RECURSIVE Distance(_, _, _, _)
Distance(G, n, target, d) ==
    IF target \in EgoNodes(G, n, d) THEN d ELSE Distance(G, n, target, d + 1)

\* the directed walks of k edges from n
RECURSIVE Walks(_, _, _)
Walks(G, n, k) ==
    IF k = 0 THEN {<<n>>}
    ELSE {Append(w, e[2]) :
            <<w, e>> \in {we \in Walks(G, n, k - 1) \X G.adj :
                            we[2][1] = we[1][Len(we[1])]}}

\* the directed walks from n to target of up to two edges more than needed
WalksNearShortest(G, n, target) ==
    LET d == Distance(G, n, target, 0)
    IN  UNION {{w \in Walks(G, n, k) : w[Len(w)] = target} : k \in d..(d + 2)}

\* the paths nx.shortest_path(G, n, target) may return
ShortestPaths(G, n, target) ==
    {w \in Walks(G, n, Distance(G, n, target, 0)) : w[Len(w)] = target}

\* get_related_knowledge, lines 50-59: the node records of the subgraph
RelatedNodes(G, ego) ==
    {[id |-> n,
      type |-> Get(G.node[n], "type", "unknown"),
      labels |-> Get(G.node[n], "labels", <<>>),
      descriptions |-> Get(G.node[n], "descriptions", <<>>),
      domains |-> Get(G.node[n], "domains", {})] : n \in ego}

\* get_related_knowledge, lines 61-68: the edge records of the subgraph
RelatedEdges(G, ego) ==
    {[source |-> e[1], target |-> e[2], relation |-> e[3]] :
        e \in {e \in G.adj : e[1] \in ego /\ e[2] \in ego}}

\* `not self.enhanced_graph or keyword not in self.enhanced_graph`
SeedMissing(G, keyword) ==
    \/ G = None
    \/ DOMAIN G.node = {}
    \/ ~HasNode(G, keyword)

KeepAllPaths(found) == {found}

\* paths[:5]: the lists of paths that may be kept, each as a set; the order of
\* subgraph.nodes() decides which
KeepPaths(found) ==
    {kept \in SUBSET found : Cardinality(kept) = Min(PathCap, Cardinality(found))}

\* get_related_knowledge, line 73: the targets a path is looked up for
PathTargets(ego, keyword) == ego \ {keyword}

\* get_related_knowledge, lines 72-80: one shortest path per target, kept when
\* it has more than one node; the lists `paths` may be before the cut
RECURSIVE FoundPaths(_, _, _)
FoundPaths(G, keyword, targets) ==
    IF targets = {} THEN {{}}
    ELSE LET t == CHOOSE t \in targets : TRUE
         IN  {rest \cup (IF Len(path) > 1 THEN {path} ELSE {}) :
                <<rest, path>> \in FoundPaths(G, keyword, targets \ {t})
                                   \X ShortestPaths(G, keyword, t)}

\* get_related_knowledge, lines 46-68: the node and edge records
RelatedSubgraph(G, keyword, max_depth) ==
    IF SeedMissing(G, keyword)
    THEN [nodes |-> {}, edges |-> {}]
    ELSE LET ego == EgoNodes(G, keyword, max_depth)
         IN  [nodes |-> RelatedNodes(G, ego), edges |-> RelatedEdges(G, ego)]

\* get_related_knowledge, lines 70-84: the path lists it may return
RelatedPaths(G, keyword, max_depth) ==
    IF SeedMissing(G, keyword)
    THEN {{}}
    ELSE LET ego == EgoNodes(G, keyword, max_depth)
             found == FoundPaths(G, keyword, PathTargets(ego, keyword))
         IN  UNION {KeepPaths(f) : f \in found}

\* KnowledgeGraphBuilder.get_related_knowledge: the results it may return
get_related_knowledge(G, keyword, max_depth) ==
    {RelatedSubgraph(G, keyword, max_depth) @@ [paths |-> kept] :
        kept \in RelatedPaths(G, keyword, max_depth)}

\* KnowledgeGraphBuilder.visualize_knowledge_paths; of the related knowledge
\* it reads the nodes and the edges
visualize_knowledge_paths(G, keyword) ==
    LET related == RelatedSubgraph(G, keyword, DefaultMaxDepth)
    IN  [nodes |-> {[id |-> keyword, label |-> keyword, size |-> 30,
                     color |-> "#ff6b6b"]}
                   \cup {[id |-> node.id, label |-> node.id, size |-> 20,
                          color |-> IF node.type = "keyword"
                                    THEN "#4ecdc4" ELSE "#45b7d1"] :
                            node \in {r \in related.nodes : r.id # keyword}},
         links |-> {[source |-> edge.source, target |-> edge.target,
                     label |-> edge.relation] : edge \in related.edges}]

-----------------------------------------------------------------------------
(* main.py *)

\* main.generate_summary
generate_summary(keywords, knowledge_importance, literacy_analysis) ==
    <<[line |-> "keywords", count |-> Len(keywords)]>>
    \o (IF knowledge_importance.total_analyzed > 0
        THEN <<[line |-> "important",
                count |-> Len(knowledge_importance.important_knowledge)]>>
        ELSE <<>>)
    \o (IF literacy_analysis.top_dimension.name # "none"
        THEN <<[line |-> "top", name |-> literacy_analysis.top_dimension.name]>>
        ELSE <<>>)

\* the knowledge_graph value of the two error-bearing results
EmptyGraphData == [nodes |-> {}, edges |-> {}, paths |-> {}]

NoKeywordsWithoutError(code) ==
    [analyzed_keywords |-> <<>>,
     knowledge_importance |-> KnowledgeEmptyResult,
     literacy_analysis |-> LiteracyEmptyResult,
     knowledge_graph |-> EmptyGraphData,
     original_code |-> code]

\* generate_teaching_resource, lines 51-58: no keyword was extracted
NoKeywordsResult(code) ==
    [analyzed_keywords |-> <<>>,
     knowledge_importance |-> KnowledgeEmptyResult,
     literacy_analysis |-> LiteracyEmptyResult,
     knowledge_graph |-> EmptyGraphData,
     original_code |-> code,
     error |-> "no valid keyword extracted"]

ExceptionWithoutMessage(code, e) ==
    [analyzed_keywords |-> <<>>,
     knowledge_importance |-> KnowledgeEmptyResult,
     literacy_analysis |-> LiteracyEmptyResult,
     knowledge_graph |-> EmptyGraphData,
     original_code |-> code,
     error |-> <<"error during analysis">>]

\* generate_teaching_resource, lines 82-90: an exception was caught
ExceptionResult(code, e) ==
    [analyzed_keywords |-> <<>>,
     knowledge_importance |-> KnowledgeEmptyResult,
     literacy_analysis |-> LiteracyEmptyResult,
     knowledge_graph |-> EmptyGraphData,
     original_code |-> code,
     error |-> <<"error during analysis", e>>]

\* generate_teaching_resource, lines 60-80: the result of a full analysis;
\* enhanced is the graph enhance_with_keywords has just stored
SuccessResult(data, code, keywords, enhanced) ==
    LET knowledge_importance == analyze_knowledge_importance(data, keywords)
        literacy_analysis == analyze_literacy(data, keywords)
    IN  [analyzed_keywords |-> keywords,
         knowledge_importance |-> knowledge_importance,
         literacy_analysis |-> literacy_analysis,
         knowledge_graph |-> visualize_knowledge_paths(enhanced, keywords[1]),
         original_code |-> code,
         summary |-> generate_summary(keywords, knowledge_importance,
                                      literacy_analysis)]

-----------------------------------------------------------------------------
(* The reference data the model is run with *)

D4 == <<"d", "4">>
D5 == <<"d", "5">>
D6 == <<"d", "6">>

\* three keywords, three indicators, a tie in declared weight
KM_A == (A :> KeywordEntry("X1", 30)) @@ (B :> KeywordEntry("X2", 20))
        @@ (AB :> KeywordEntry("X3", 30))
\* two keywords share an indicator; AB is no reference keyword
KM_B == (A :> KeywordEntry("X1", 10)) @@ (B :> KeywordEntry("X1", 20))
\* an empty indicator code, an indicator the weight table lacks
KM_C == (A :> KeywordEntry("", 5)) @@ (B :> KeywordEntry("X9", 5))
        @@ (AB :> KeywordEntry("X2", 5))

\* AB is no reference keyword, the indicator of A is in no weight table
KM_E == (A :> KeywordEntry("X9", 5)) @@ (B :> KeywordEntry("X2", 5))

\* keys the legacy filter of code_analyzer.py would drop, next to one it keeps
KM_D == (LenName :> KeywordEntry("X1", 10)) @@ (MainName :> KeywordEntry("X2", 20))
        @@ (Dashed :> KeywordEntry("X3", 5)) @@ (A :> KeywordEntry("X1", 30))

\* one level; the sum of the three weights depends on the order of addition
WM_1 == ("X1" :> WeightEntry(9001, "n1", "C11"))
        @@ ("X2" :> WeightEntry(9000, "n2", "C11"))
        @@ ("X3" :> WeightEntry(1, "n3", "C11"))
\* the thresholds themselves; a level the static name table lacks
WM_2 == ("X1" :> WeightEntry(8000, "n1", "C11"))
        @@ ("X2" :> WeightEntry(5000, "n2", "B1"))
        @@ ("X3" :> WeightEntry(3000, "n3", "Z9"))
\* just below the thresholds (pandas reads an empty code cell as NaN, so no
\* weight table has an entry for the empty code)
WM_3 == ("X1" :> WeightEntry(7999, "n1", "C11"))
        @@ ("X2" :> WeightEntry(4999, "n2", "C11"))
        @@ ("X3" :> WeightEntry(2999, "n3", "B1"))
\* 0.02; more than 0.1, with five decimals
WM_4 == ("X1" :> WeightEntry(2000, "n1", "B1"))
        @@ ("X2" :> WeightEntry(12345, "n2", "B1"))

\* two weights of the highest tier, one of the lowest
WM_5 == ("X1" :> WeightEntry(9000, "n1", "C11"))
        @@ ("X2" :> WeightEntry(2000, "n2", "B1"))
        @@ ("X3" :> WeightEntry(8500, "n3", "B1"))

\* A is listed by two entries, AB twice by one entry
CORP_1 == <<CorpusEntry(Pandas, <<A, B>>, "t1"),
            CorpusEntry(Numpy, <<A>>, "t2"),
            CorpusEntry(Stats, <<AB, AB>>, "t3")>>
\* a domain that is named like a keyword
CORP_2 == <<CorpusEntry(AB, <<A>>, "t4"),
            CorpusEntry(Pandas, <<B, A>>, "t5")>>

\* six concepts within two hops of a keyword of Pandas and Numpy
ROWS_1 == <<<<Pandas, D4, "includes">>, <<Pandas, D5, "includes">>,
            <<Numpy, D6, "includes">>, <<Numpy, Stats, "supports">>,
            <<Pandas, Stats, "supports">>>>
\* a keyword that is a concept already, on a cycle
ROWS_2 == <<<<A, Pandas, "part_of">>, <<Pandas, A, "includes">>,
            <<Pandas, Stats, "supports">>>>

\* what load_all_data returns when no CSV file exists
NoData == Bundle(<< >>, << >>, <<>>, <<>>)

-----------------------------------------------------------------------------
(* The calls *)

NoCall == [op |-> "none"]

\* main.initialize_system; load_all_data raises on a malformed CSV row
\* (a missing column, a weight that is no number) before anything is assigned
InitializeSystem ==
    IF csv_files.ok
    THEN /\ LOADED_DATA' = csv_files.data
         /\ enhanced_graph' = None
         /\ last' = [op |-> "initialize_system", outcome |-> "returned"]
         /\ UNCHANGED csv_files
    ELSE /\ last' = [op |-> "initialize_system", outcome |-> "raised"]
         /\ UNCHANGED <<csv_files, LOADED_DATA, enhanced_graph>>

\* the lists extract_from_code may return: one per order in which the set of
\* collected tokens is iterated
ExtractResults(code, keyword_mapping) ==
    {extract_from_code(code, listing, keyword_mapping) :
        listing \in Orders(ExtractedTokens(code, keyword_mapping))}

\* generate_teaching_resource, lines 46-90, with the data loaded
Analyse(data, graph_before, code) ==
    IF AstRaises(code)
    THEN /\ enhanced_graph' = graph_before
         /\ LOADED_DATA' = data
         /\ last' = [op |-> "generate_teaching_resource", code |-> code,
                     outcome |-> "returned", before |-> graph_before,
                     ret |-> ExceptionResult(code, code.parse)]
    ELSE \E keywords \in ExtractResults(code, data.keyword_mapping) :
            IF keywords = <<>>
            THEN /\ enhanced_graph' = graph_before
                 /\ LOADED_DATA' = data
                 /\ last' = [op |-> "generate_teaching_resource",
                             code |-> code, outcome |-> "returned",
                             before |-> graph_before,
                             ret |-> NoKeywordsResult(code)]
            ELSE \E enhanced \in {enhance_with_keywords(
                                     EnhanceBase(data.knowledge_graph, graph_before),
                                     keywords, data.teaching_corpus)} :
                    /\ enhanced_graph' = enhanced
                    /\ LOADED_DATA' = DataAfterEnhance(data, enhanced)
                    /\ last' = [op |-> "generate_teaching_resource",
                                code |-> code, outcome |-> "returned",
                                before |-> graph_before,
                                ret |-> SuccessResult(data, code, keywords,
                                                      enhanced)]

\* main.generate_teaching_resource
GenerateTeachingResource(code) ==
    /\ UNCHANGED csv_files
    /\ IF LOADED_DATA = None /\ ~csv_files.ok
       THEN \* initialize_system raises outside the try block
            /\ last' = [op |-> "generate_teaching_resource", code |-> code,
                        outcome |-> "raised"]
            /\ UNCHANGED <<LOADED_DATA, enhanced_graph>>
       ELSE IF LOADED_DATA = None
       THEN \* initialize_system loads the tables, then the pipeline runs
            Analyse(csv_files.data, None, code)
       ELSE Analyse(LOADED_DATA, enhanced_graph, code)

\* code_analyzer.extract_keywords, called on its own
ExtractKeywords(code) ==
    /\ last' = IF AnalyzerRaises(code)
               THEN [op |-> "extract_keywords", code |-> code,
                     outcome |-> "raised"]
               ELSE [op |-> "extract_keywords", code |-> code,
                     outcome |-> "returned", ret |-> extract_keywords(code)]
    /\ UNCHANGED <<csv_files, LOADED_DATA, enhanced_graph>>

\* KnowledgeAnalyzer.analyze_knowledge_importance, called on its own
AnalyzeKnowledgeImportance(keywords) ==
    /\ LOADED_DATA # None
    /\ last' = [op |-> "analyze_knowledge_importance", keywords |-> keywords,
                ret |-> analyze_knowledge_importance(LOADED_DATA, keywords)]
    /\ UNCHANGED <<csv_files, LOADED_DATA, enhanced_graph>>

\* LiteracyAnalyzer.analyze_literacy, called on its own
AnalyzeLiteracy(keywords) ==
    /\ LOADED_DATA # None
    /\ last' = [op |-> "analyze_literacy", keywords |-> keywords,
                ret |-> analyze_literacy(LOADED_DATA, keywords)]
    /\ UNCHANGED <<csv_files, LOADED_DATA, enhanced_graph>>

\* KnowledgeGraphBuilder.enhance_with_keywords, called on its own
EnhanceWithKeywords(keywords) ==
    /\ LOADED_DATA # None
    /\ LET enhanced == enhance_with_keywords(
                           EnhanceBase(LOADED_DATA.knowledge_graph, enhanced_graph),
                           keywords, LOADED_DATA.teaching_corpus)
       IN  /\ enhanced_graph' = enhanced
           /\ LOADED_DATA' = DataAfterEnhance(LOADED_DATA, enhanced)
           /\ last' = [op |-> "enhance_with_keywords", keywords |-> keywords,
                       before |-> enhanced_graph, ret |-> enhanced]
    /\ UNCHANGED csv_files

\* KnowledgeGraphBuilder.get_related_knowledge, called on its own
GetRelatedKnowledge(keyword, max_depth) ==
    /\ LOADED_DATA # None
    /\ \E related \in get_related_knowledge(enhanced_graph, keyword, max_depth) :
          last' = [op |-> "get_related_knowledge", keyword |-> keyword,
                   max_depth |-> max_depth, ret |-> related]
    /\ UNCHANGED <<csv_files, LOADED_DATA, enhanced_graph>>

\* KnowledgeGraphBuilder.visualize_knowledge_paths, called on its own
VisualizeKnowledgePaths(keyword) ==
    /\ LOADED_DATA # None
    /\ last' = [op |-> "visualize_knowledge_paths", keyword |-> keyword,
                ret |-> visualize_knowledge_paths(enhanced_graph, keyword)]
    /\ UNCHANGED <<csv_files, LOADED_DATA, enhanced_graph>>

-----------------------------------------------------------------------------
(* The orchestrator: code snippets through generate_teaching_resource *)

\* the syntax nodes and raw texts snippets are made of
NodePool ==
    {[kind |-> "Call_Attribute", tok |-> A],
     [kind |-> "Name", tok |-> B],
     [kind |-> "ImportFrom", tok |-> AB, name |-> X],
     [kind |-> "Attribute", tok |-> AB],
     [kind |-> "Comment", tok |-> AB],
     [kind |-> "Call_Name", tok |-> X]}

\* a snippet: how ast.parse ends on it, and the syntax nodes (of the tree, when
\* it parses) and quoted or commented texts that occur in it
Codes ==
    [parse : ParseOutcomes,
     nodes : {ns \in SUBSET NodePool : Cardinality(ns) <= MaxNodes}]

\* the CSV files the process may find: well-formed tables, no files, a
\* malformed row
Files ==
    {[ok |-> TRUE, data |-> d] :
        d \in {Bundle(KM_A, WM_2, CORP_1, ROWS_1),
               Bundle(KM_B, WM_1, CORP_1, ROWS_2),
               Bundle(KM_C, WM_3, CORP_2, <<>>),
               NoData}}
    \cup {[ok |-> FALSE, data |-> NoData]}

Init ==
    /\ csv_files \in Files
    /\ LOADED_DATA = None
    /\ enhanced_graph = None
    /\ last = NoCall

Next ==
    \/ InitializeSystem
    \/ \E code \in Codes : GenerateTeachingResource(code)

Spec == Init /\ [][Next]_vars

-----------------------------------------------------------------------------
(* The two extractors: snippets through generate_teaching_resource, which    *)
(* uses KeywordExtractor, and through code_analyzer.extract_keywords         *)

\* syntax nodes and texts that name what the filter of code_analyzer.py is
\* about, next to a method call, an attribute access and an identifier
ExtractNodePool ==
    {[kind |-> "Call_Name", tok |-> LenName],
     [kind |-> "Import", tok |-> MainName],
     [kind |-> "Str", tok |-> Dashed],
     [kind |-> "Call_Attribute", tok |-> A],
     [kind |-> "Attribute", tok |-> AB],
     [kind |-> "Name", tok |-> B]}

ExtractCodes ==
    [parse : ParseOutcomes,
     nodes : {ns \in SUBSET ExtractNodePool : Cardinality(ns) <= MaxNodes}]

ExtractData ==
    {Bundle(KM_D, WM_2, CORP_1, <<>>),
     Bundle(KM_A, WM_2, CORP_1, ROWS_1)}

InitExtract ==
    /\ csv_files \in {[ok |-> TRUE, data |-> d] : d \in ExtractData}
    /\ LOADED_DATA = None
    /\ enhanced_graph = None
    /\ last = NoCall

NextExtract ==
    \/ \E code \in ExtractCodes : GenerateTeachingResource(code)
    \/ \E code \in ExtractCodes : ExtractKeywords(code)

SpecExtract == InitExtract /\ [][NextExtract]_vars

-----------------------------------------------------------------------------
(* The scorers on their own, over every keyword list *)

KeywordLists == SeqsUpTo({A, B, AB}, MaxKeywords)

ScorerData ==
    {Bundle(KM_A, WM_1, CORP_1, <<>>),
     Bundle(KM_A, WM_2, CORP_1, <<>>),
     Bundle(KM_A, WM_3, <<>>, <<>>),
     Bundle(KM_B, WM_4, CORP_1, <<>>),
     Bundle(KM_C, WM_3, CORP_1, <<>>),
     Bundle(KM_C, WM_4, CORP_2, <<>>),
     Bundle(KM_E, WM_3, CORP_2, <<>>),
     Bundle(KM_A, WM_5, CORP_1, <<>>),
     Bundle(KM_B, WM_1, CORP_2, <<>>)}

InitScorers ==
    /\ csv_files \in {[ok |-> TRUE, data |-> d] : d \in ScorerData}
    /\ LOADED_DATA = csv_files.data
    /\ enhanced_graph = None
    /\ last = NoCall

NextScorers ==
    \E keywords \in KeywordLists :
        \/ AnalyzeKnowledgeImportance(keywords)
        \/ AnalyzeLiteracy(keywords)

SpecScorers == InitScorers /\ [][NextScorers]_vars

-----------------------------------------------------------------------------
(* The graph builder on its own *)

GraphKeywordLists == SeqsUpTo({A, B, AB}, MaxGraphKeywords)

Seeds == {A, B, AB, Pandas, X}

GraphData ==
    {Bundle(KM_A, WM_2, CORP_1, ROWS_1),
     Bundle(KM_A, WM_2, CORP_2, ROWS_2),
     Bundle(KM_A, WM_2, CORP_2, <<>>)}

InitGraph ==
    /\ csv_files \in {[ok |-> TRUE, data |-> d] : d \in GraphData}
    /\ LOADED_DATA = csv_files.data
    /\ enhanced_graph = None
    /\ last = NoCall

NextGraph ==
    \/ \E keywords \in GraphKeywordLists : EnhanceWithKeywords(keywords)
    \/ \E keyword \in Seeds, max_depth \in 0..MaxDepth :
          GetRelatedKnowledge(keyword, max_depth)
    \/ \E keyword \in Seeds : VisualizeKnowledgePaths(keyword)

SpecGraph == InitGraph /\ [][NextGraph]_vars

-----------------------------------------------------------------------------
(* The claims *)

IsGenerate == last.op = "generate_teaching_resource"
Returned == IsGenerate /\ last.outcome = "returned"
IsImportance == last.op = "analyze_knowledge_importance"
IsLiteracy == last.op = "analyze_literacy"
IsEnhance == last.op = "enhance_with_keywords"
IsRelated == last.op = "get_related_knowledge"

ResultKeys == {"analyzed_keywords", "knowledge_importance", "literacy_analysis",
               "knowledge_graph", "original_code", "summary"}

\* the records a knowledge_importance result lists
ListedRecords(ki) ==
    Range(ki.important_knowledge) \cup Range(ki.secondary_knowledge)

\* every rearrangement of the list s
Rearrangements(s) ==
    {[i \in 1..Len(s) |-> s[f[i]]] : f \in Orders(1..Len(s))}

(* C1: every call of generate_teaching_resource returns, never raises, and   *)
(* the mapping it returns has all of the keys analyzed_keywords,             *)
(* knowledge_importance, literacy_analysis, knowledge_graph, original_code   *)
(* and summary, on every path.                                               *)
C1_AlwaysCompleteResult ==
    IsGenerate =>
        /\ last.outcome = "returned"
        /\ ResultKeys \subseteq DOMAIN last.ret

(* C2: every keyword of analyzed_keywords is a key of the loaded             *)
(* keyword_mapping, and so is the keyword of every record that was scored.   *)
C2_KeywordsAreMappingKeys ==
    Returned =>
        /\ Range(last.ret.analyzed_keywords)
              \subseteq DOMAIN LOADED_DATA.keyword_mapping
        /\ \A r \in ListedRecords(last.ret.knowledge_importance) :
              r.keyword \in DOMAIN LOADED_DATA.keyword_mapping

\* a token that is no key was extracted from the code and dropped, while
\* another one was kept
C2_Witness ==
    /\ Returned
    /\ last.code.parse = "ok"
    /\ last.ret.analyzed_keywords # <<>>
    /\ \E t \in _extract_from_ast(last.code) :
          /\ t \notin DOMAIN LOADED_DATA.keyword_mapping
          /\ t \notin Range(last.ret.analyzed_keywords)

(* C3: adjacent keywords of the returned list are in non-increasing order of *)
(* their declared weight in keyword_mapping.                                 *)
C3_RankedByWeight ==
    Returned =>
        LET k == last.ret.analyzed_keywords
        IN  \A i \in 1..(Len(k) - 1) :
                LOADED_DATA.keyword_mapping[k[i]].weight
                    >= LOADED_DATA.keyword_mapping[k[i + 1]].weight

\* three keywords came back, two of equal weight ahead of a lighter one
C3_Witness ==
    /\ Returned
    /\ LET k == last.ret.analyzed_keywords
       IN  /\ Len(k) = 3
           /\ LOADED_DATA.keyword_mapping[k[1]].weight
                 = LOADED_DATA.keyword_mapping[k[2]].weight
           /\ LOADED_DATA.keyword_mapping[k[2]].weight
                 > LOADED_DATA.keyword_mapping[k[3]].weight

(* C4: the tier of a record depends on its weight_score alone, with          *)
(* inclusive lower bounds: >= 0.08 high, >= 0.05 medium-high, >= 0.03        *)
(* medium, lower low; so 0.08, 0.05, 0.03 and 0.02 are high, medium-high,    *)
(* medium and low.                                                           *)
C4_TierByThreshold ==
    IsImportance =>
        \A r \in ListedRecords(last.ret) :
            /\ r.importance = "high" <=> r.weight_score >= 8000
            /\ r.importance = "medium-high" <=>
                  (5000 <= r.weight_score /\ r.weight_score < 8000)
            /\ r.importance = "medium" <=>
                  (3000 <= r.weight_score /\ r.weight_score < 5000)
            /\ r.importance = "low" <=> r.weight_score < 3000

\* one result lists records of exactly 0.08, 0.05 and 0.03
C4_Witness ==
    /\ IsImportance
    /\ \E r \in ListedRecords(last.ret) :
          r.weight_score = 8000 /\ r.importance = "high"
    /\ \E r \in ListedRecords(last.ret) :
          r.weight_score = 5000 /\ r.importance = "medium-high"
    /\ \E r \in ListedRecords(last.ret) :
          r.weight_score = 3000 /\ r.importance = "medium"

(* C5: important_knowledge and secondary_knowledge hold at most 5 records    *)
(* each, however many corpus records match.                                  *)
C5_AtMostFiveEach ==
    IsImportance =>
        /\ Len(last.ret.important_knowledge) <= 5
        /\ Len(last.ret.secondary_knowledge) <= 5

\* six records matched, all of one class, and five of them are listed
C5_Witness ==
    /\ IsImportance
    /\ last.ret.total_analyzed = 6
    /\ \/ /\ Len(last.ret.important_knowledge) = 5
          /\ last.ret.secondary_knowledge = <<>>
       \/ /\ Len(last.ret.secondary_knowledge) = 5
          /\ last.ret.important_knowledge = <<>>

(* C6: analyze_literacy returns the same dimension_scores (the same levels,  *)
(* the same accumulated weight per level) for every permutation of its       *)
(* keyword list.                                                             *)
C6_OrderIndependentScores ==
    IsLiteracy =>
        \A p \in Rearrangements(last.keywords) :
            analyze_literacy(LOADED_DATA, p).dimension_scores
                = last.ret.dimension_scores

(* C7: the empty keyword list gives the canonical empty result in both       *)
(* scorers: no important or secondary knowledge, total_analyzed 0, a weight  *)
(* summary of count 0 and total weight 0, exactly one suggestion line; no    *)
(* dimension score, top dimension "none", no matched indicator, no detail.   *)
C7_EmptyListEmptyResult ==
    /\ (IsImportance /\ last.keywords = <<>>) =>
          /\ last.ret.important_knowledge = <<>>
          /\ last.ret.secondary_knowledge = <<>>
          /\ last.ret.total_analyzed = 0
          /\ last.ret.weight_summary.count = 0
          /\ last.ret.weight_summary.total_weight = 0
          /\ Len(last.ret.learning_suggestions) = 1
    /\ (IsLiteracy /\ last.keywords = <<>>) =>
          /\ DOMAIN last.ret.dimension_scores = {}
          /\ last.ret.top_dimension.name = "none"
          /\ last.ret.matched_indicators = <<>>
          /\ last.ret.detailed_analysis = <<>>

\* the importance scorer was called with the empty list
C7_Witness ==
    /\ IsImportance
    /\ last.keywords = <<>>
    /\ last.ret.total_analyzed = 0

\* the keywords a parseable snippet invokes as methods, whose indicator the
\* weight table gives an absolute weight of at least 0.08
HighMethodKeywords ==
    {n.tok : n \in {n \in last.code.nodes :
        /\ n.kind = "Call_Attribute"
        /\ n.tok \in DOMAIN LOADED_DATA.keyword_mapping
        /\ LOADED_DATA.keyword_mapping[n.tok].indicator_code
              \in DOMAIN LOADED_DATA.weight_mapping
        /\ LOADED_DATA.weight_mapping[
              LOADED_DATA.keyword_mapping[n.tok].indicator_code].absolute_weight
              >= 8000}}

(* C8: when parseable code invokes as a method a keyword k that the mapping  *)
(* gives an indicator of absolute weight w >= 0.08 and level L, k is in      *)
(* analyzed_keywords, a matched record of k has importance high, every       *)
(* listed record of k has importance high, and dimension_scores[L] >= w.     *)
C8_HighMethodKeyword ==
    (Returned /\ last.code.parse = "ok") =>
        \A k \in HighMethodKeywords :
            LET info == LOADED_DATA.weight_mapping[
                            LOADED_DATA.keyword_mapping[k].indicator_code]
                keywords == last.ret.analyzed_keywords
                matched == _calculate_weights(LOADED_DATA,
                              _match_teaching_content(LOADED_DATA, keywords))
                scores == last.ret.literacy_analysis.dimension_scores
            IN  /\ k \in Range(keywords)
                /\ \E i \in 1..Len(matched) :
                      matched[i].keyword = k /\ matched[i].importance = "high"
                /\ \A r \in ListedRecords(last.ret.knowledge_importance) :
                      r.keyword = k => r.importance = "high"
                /\ info.level \in DOMAIN scores
                /\ scores[info.level] >= info.absolute_weight

\* such a method call was analysed and its record is listed as important
C8_Witness ==
    /\ Returned
    /\ last.code.parse = "ok"
    /\ \E k \in HighMethodKeywords :
          \E i \in 1..Len(last.ret.knowledge_importance.important_knowledge) :
              LET r == last.ret.knowledge_importance.important_knowledge[i]
              IN  r.keyword = k /\ r.importance = "high"

(* C9: get_related_knowledge returns at most 5 paths, and every path has at  *)
(* least two nodes and does not end at the seed.                             *)
C9_FewPathsNoSelfPath ==
    IsRelated =>
        /\ Cardinality(last.ret.paths) <= 5
        /\ \A path \in last.ret.paths :
              /\ Len(path) >= 2
              /\ path[Len(path)] # last.keyword

\* six other nodes are in the neighbourhood and five paths came back
C9_Witness ==
    /\ IsRelated
    /\ Cardinality(last.ret.nodes) = 7
    /\ Cardinality(last.ret.paths) = 5

\* the keyword nodes of a graph
KeywordNodes(G) ==
    IF G = None THEN {}
    ELSE {n \in DOMAIN G.node : Get(G.node[n], "type", "unknown") = "keyword"}

(* C10: when enhance_with_keywords is called again with a keyword that has a *)
(* keyword node from the call before, the graph has that node still, with    *)
(* the descriptions and domains it had.                                      *)
C10_RepeatKeepsNode ==
    IsEnhance =>
        \A k \in Range(last.keywords) \cap KeywordNodes(last.before) :
            /\ HasNode(last.ret, k)
            /\ last.ret.node[k] = last.before.node[k]

\* a second call named a keyword whose node carries descriptions
C10_Witness ==
    /\ IsEnhance
    /\ \E k \in Range(last.keywords) \cap KeywordNodes(last.before) :
          /\ last.before.node[k].descriptions # <<>>
          /\ last.ret.node[k].descriptions = last.before.node[k].descriptions

\* the pipeline of generate_teaching_resource was entered: the reference data
\* is loaded when the call ends
PipelineEntered == IsGenerate /\ LOADED_DATA # None

NoReferenceKeyword ==
    /\ PipelineEntered
    /\ ~AstRaises(last.code)
    /\ ExtractedTokens(last.code, LOADED_DATA.keyword_mapping)
           \cap DOMAIN LOADED_DATA.keyword_mapping = {}

(* C12: when extraction yields no reference keyword, the call returns a      *)
(* result with no analyzed keyword, a non-empty error message, the two       *)
(* canonical empty analyses, and the input as original_code.                 *)
C12_NoKeywordsResult ==
    NoReferenceKeyword =>
        /\ last.outcome = "returned"
        /\ last.ret.analyzed_keywords = <<>>
        /\ "error" \in DOMAIN last.ret
        /\ last.ret.error # ""
        /\ last.ret.knowledge_importance = KnowledgeEmptyResult
        /\ last.ret.literacy_analysis = LiteracyEmptyResult
        /\ last.ret.original_code = last.code

\* a parseable snippet whose only token is in no reference table
C12_Witness ==
    /\ NoReferenceKeyword
    /\ last.code.parse = "ok"
    /\ _extract_from_ast(last.code) # {}
    /\ DOMAIN LOADED_DATA.keyword_mapping # {}
    /\ last.ret.analyzed_keywords = <<>>

(* C13: for code that fails to parse (ast.parse raises SyntaxError),         *)
(* extraction does not raise and yields no keyword, so the call takes the    *)
(* no-keywords branch.                                                       *)
C13_ParseFailureNoKeywords ==
    (PipelineEntered /\ last.code.parse = "SyntaxError") =>
        /\ last.outcome = "returned"
        /\ last.ret.analyzed_keywords = <<>>
        /\ last.ret = NoKeywordsResult(last.code)

(* C14: no token that starts with a prefix of this program's own modules,   *)
(* that is one of the excluded built-in or common names, or that is no       *)
(* valid identifier is among the keywords generate_teaching_resource works   *)
(* with, even when it is a key of keyword_mapping.                           *)
C14_NoFilteredToken ==
    Returned =>
        \A kw \in Range(last.ret.analyzed_keywords) :
            /\ ~is_self_module(kw)
            /\ ~is_builtin_or_common(kw)
            /\ is_valid_identifier(kw)

\* the names a snippet imports, calls, calls as a method, uses as an
\* identifier or accesses as an attribute
OccurringNames(code) ==
    UNION {IF n.kind = "ImportFrom" THEN {n.tok, n.name} ELSE {n.tok} :
              n \in {n \in code.nodes : n.kind \in AstKinds}}

(* C15: for parseable code, every key of keyword_mapping that the code       *)
(* imports, calls as a function, calls as a method, uses as an identifier    *)
(* or accesses as a plain attribute is in the list extraction returns.       *)
C15_EveryOccurringKeyExtracted ==
    (Returned /\ last.code.parse = "ok") =>
        OccurringNames(last.code) \cap DOMAIN LOADED_DATA.keyword_mapping
            \subseteq Range(last.ret.analyzed_keywords)

(* C16: in every result of generate_teaching_resource the knowledge_graph   *)
(* value has the keys of what visualize_knowledge_paths returns: a node list *)
(* and a link list.                                                          *)
C16_GraphValueIsVisualization ==
    Returned =>
        DOMAIN last.ret.knowledge_graph
            = DOMAIN visualize_knowledge_paths(enhanced_graph, <<>>)

(* C17: the enhanced graph accumulates keyword nodes across calls: after a   *)
(* call of enhance_with_keywords it has a keyword node for every keyword of  *)
(* the call before as well, with the descriptions that node had.             *)
C17_KeywordNodesAccumulate ==
    IsEnhance =>
        \A k \in KeywordNodes(last.before) :
            /\ k \in KeywordNodes(last.ret)
            /\ last.ret.node[k].descriptions = last.before.node[k].descriptions

(* C18: across calls of generate_teaching_resource the reference tables     *)
(* stay as they were loaded: no entry of keyword_mapping, weight_mapping or  *)
(* teaching_corpus and no node or edge of the static expert graph is added,  *)
(* removed or altered.                                                       *)
C18_ReferenceTablesReadOnly ==
    LOADED_DATA # None => LOADED_DATA = csv_files.data

\* a full analysis has stored an enhanced graph with a keyword node that is
\* linked to a concept of the static graph
C18_Witness ==
    /\ Returned
    /\ "summary" \in DOMAIN last.ret
    /\ \E e \in enhanced_graph.adj :
          /\ e[1] \in KeywordNodes(enhanced_graph)
          /\ e[3] = "belongs_to"
          /\ HasNode(LOADED_DATA.knowledge_graph, e[2])
          /\ ~HasNode(LOADED_DATA.knowledge_graph, e[1])

\* the number of corpus entries whose keyword list contains the keyword
EntriesListing(teaching_corpus, keyword) ==
    Cardinality({i \in 1..Len(teaching_corpus) :
                    keyword \in Range(teaching_corpus[i].keywords)})

\* one record per listing entry, one placeholder for a keyword no entry lists
RECURSIVE RecordsPerEntry(_, _)
RecordsPerEntry(teaching_corpus, keywords) ==
    IF keywords = <<>> THEN 0
    ELSE LET n == EntriesListing(teaching_corpus, Head(keywords))
         IN  (IF n = 0 THEN 1 ELSE n)
                + RecordsPerEntry(teaching_corpus, Tail(keywords))

(* C19: for a non-empty keyword list total_analyzed is the sum over the      *)
(* keywords of max(1, number of corpus entries that list the keyword), one   *)
(* record per listing entry or one placeholder, and never less than the      *)
(* number of keywords.                                                       *)
C19_OneRecordPerListingEntry ==
    (IsImportance /\ last.keywords # <<>>) =>
        /\ last.ret.total_analyzed
              = RecordsPerEntry(LOADED_DATA.teaching_corpus, last.keywords)
        /\ last.ret.total_analyzed >= Len(last.keywords)

\* a lookup miss: the keyword has no entry in keyword_mapping, or its
\* indicator code has none in the weight table
LookupMiss(keyword) ==
    \/ keyword \notin DOMAIN LOADED_DATA.keyword_mapping
    \/ LOADED_DATA.keyword_mapping[keyword].indicator_code
          \notin DOMAIN LOADED_DATA.weight_mapping

(* C20: a lookup miss is not surfaced: the records of a keyword that has no  *)
(* entry in keyword_mapping, or whose indicator has none in the weight       *)
(* table, get weight_score 0.1 and the indicator name "unclassified", and    *)
(* the result carries no error; every other record has the absolute weight   *)
(* of its indicator.                                                         *)
C20_LookupMissDefaults ==
    IsImportance =>
        /\ "error" \notin DOMAIN last.ret
        /\ \A r \in ListedRecords(last.ret) :
              IF LookupMiss(r.keyword)
              THEN /\ r.weight_score = 10000
                   /\ r.indicator_name = "unclassified"
              ELSE r.weight_score =
                      LOADED_DATA.weight_mapping[
                          LOADED_DATA.keyword_mapping[r.keyword].indicator_code
                      ].absolute_weight

\* one result lists a record of a keyword without mapping entry, a record of
\* a keyword whose indicator the weight table lacks, and a record that resolves
C20_Witness ==
    /\ IsImportance
    /\ \E r \in ListedRecords(last.ret) :
          r.keyword \notin DOMAIN LOADED_DATA.keyword_mapping
    /\ \E r \in ListedRecords(last.ret) :
          /\ r.keyword \in DOMAIN LOADED_DATA.keyword_mapping
          /\ LookupMiss(r.keyword)
    /\ \E r \in ListedRecords(last.ret) : ~LookupMiss(r.keyword)

\* the matched records of the last analyze_knowledge_importance call, scored,
\* in matching order
ScoredMatches ==
    LET matched == _match_teaching_content(LOADED_DATA, last.keywords)
    IN  [i \in 1..Len(matched) |-> WeighRecord(LOADED_DATA, matched[i])]

ImportantTiers == {"high", "medium-high"}
SecondaryTiers == {"medium", "low"}

\* number of records of s whose tier is in tiers and whose weight exceeds w
Heavier(s, tiers, w) ==
    Cardinality({i \in 1..Len(s) :
                    s[i].importance \in tiers /\ s[i].weight_score > w})

\* kept lists records of the tiers only, in non-increasing weight order, and
\* every matched record of the tiers that outweighs a kept one is kept too
TopOfClass(kept, tiers) ==
    /\ \A i \in 1..Len(kept) : kept[i].importance \in tiers
    /\ \A i \in 1..Len(kept) : Count(ScoredMatches, kept[i]) > 0
    /\ \A i, j \in 1..Len(kept) :
          i < j => kept[i].weight_score >= kept[j].weight_score
    /\ Len(kept) = Min(KnowledgeCap, Heavier(ScoredMatches, tiers, -1))
    /\ \A i \in 1..Len(kept) :
          Heavier(ScoredMatches, tiers, kept[i].weight_score)
              = Heavier(kept, tiers, kept[i].weight_score)

(* C21: in the result of analyze_knowledge_importance every record of        *)
(* important_knowledge has tier high or medium-high and every record of      *)
(* secondary_knowledge has tier medium or low; each list is in               *)
(* non-increasing weight_score order and holds the highest-weighted matched  *)
(* records of its class: no matched record of the class that was left out    *)
(* has a strictly greater weight_score than one that was kept.               *)
C21_ListsAreTopOfClass ==
    IsImportance =>
        /\ TopOfClass(last.ret.important_knowledge, ImportantTiers)
        /\ TopOfClass(last.ret.secondary_knowledge, SecondaryTiers)

\* six matched records of the important class with two different weights,
\* matched lightest first: five are kept, the heavier four ahead
C21_Witness ==
    /\ IsImportance
    /\ Heavier(ScoredMatches, ImportantTiers, -1) = 6
    /\ ScoredMatches[1].weight_score < ScoredMatches[6].weight_score
    /\ Len(last.ret.important_knowledge) = 5
    /\ last.ret.important_knowledge[4].weight_score
          > last.ret.important_knowledge[5].weight_score

\* the keywords of the last call that resolve to an entry of the weight table
ResolvedKeywords == SelectSeq(last.keywords, LAMBDA k : ~LookupMiss(k))

\* the absolute weights of the resolved keywords, in keyword order
ResolvedWeights ==
    [i \in 1..Len(ResolvedKeywords) |->
        LOADED_DATA.weight_mapping[
            LOADED_DATA.keyword_mapping[ResolvedKeywords[i]].indicator_code
        ].absolute_weight]

(* C22: weight_summary is computed over the input keyword list, one          *)
(* contribution per keyword: count is the number of input keywords whose     *)
(* indicator_code is in the indicator-weight table (two keywords sharing an  *)
(* indicator count twice), total_weight is the sum of those keywords'        *)
(* absolute weights, accumulated in keyword order and rounded to 4 decimal   *)
(* places, indicators has exactly count entries, and count is at most the    *)
(* number of input keywords.                                                 *)
C22_SummaryPerKeyword ==
    IsImportance =>
        LET ws == last.ret.weight_summary
        IN  /\ ws.count = Len(ResolvedKeywords)
            /\ ws.total_weight = Round4(SumWeights(ResolvedWeights))
            /\ Len(ws.indicators) = ws.count
            /\ ws.count <= Len(last.keywords)

\* two keywords of one indicator and a keyword without one: the indicator
\* counts twice, and the rounding changes the total
C22_Witness ==
    /\ IsImportance
    /\ Len(last.keywords) = 3
    /\ last.ret.weight_summary.count = 2
    /\ LOADED_DATA.keyword_mapping[ResolvedKeywords[1]].indicator_code
          = LOADED_DATA.keyword_mapping[ResolvedKeywords[2]].indicator_code
    /\ last.ret.weight_summary.total_weight # SumWeights(ResolvedWeights)

\* C22 as stated: total_weight is the accumulated sum itself
C22_TotalIsTheSum ==
    IsImportance =>
        last.ret.weight_summary.total_weight = SumWeights(ResolvedWeights)

(* C23: whenever analyze_literacy produces a non-empty dimension_scores,     *)
(* top_dimension.code is a key of dimension_scores whose accumulated score   *)
(* is at least that of every other level, top_dimension.score is that        *)
(* level's score, and top_dimension.name is the static display label of the  *)
(* code, or the raw code when the static table lacks it.                     *)
C23_TopDimensionIsMaximum ==
    (IsLiteracy /\ DOMAIN last.ret.dimension_scores # {}) =>
        LET scores == last.ret.dimension_scores
            top == last.ret.top_dimension
        IN  /\ top.code \in DOMAIN scores
            /\ \A level \in DOMAIN scores : scores[level] <= scores[top.code]
            /\ top.score = scores[top.code]
            /\ top.name = _get_level_name(top.code)

\* the indicator code of the keyword at position i of the last call, if any
HasIndicator(i) == last.keywords[i] \in DOMAIN LOADED_DATA.keyword_mapping
IndicatorAt(i) == LOADED_DATA.keyword_mapping[last.keywords[i]].indicator_code

\* the position of the first keyword that maps to the indicator code
FirstSeen(code) ==
    CHOOSE i \in 1..Len(last.keywords) :
        /\ HasIndicator(i) /\ IndicatorAt(i) = code
        /\ \A j \in 1..(i - 1) : ~(HasIndicator(j) /\ IndicatorAt(j) = code)

\* the weights of the listed indicators that the table has with the level
WeightsOfLevel(indicators, level) ==
    LET wm == LOADED_DATA.weight_mapping
        counts(c) == c \in DOMAIN wm /\ wm[c].level = level
        mine == SelectSeq(indicators, counts)
    IN  [i \in 1..Len(mine) |-> wm[mine[i]].absolute_weight]

(* C24: analyze_literacy counts each distinct indicator once:                *)
(* matched_indicators has no duplicates and lists the indicator codes of the *)
(* mapped keywords in first-seen keyword order, and dimension_scores[L] is   *)
(* the sum, accumulated in that order, of absolute_weight over the distinct  *)
(* matched codes the weight table has with level L, however many keywords    *)
(* map to one indicator.                                                     *)
C24_EachIndicatorOnce ==
    IsLiteracy =>
        LET matched == last.ret.matched_indicators
            scores == last.ret.dimension_scores
            wm == LOADED_DATA.weight_mapping
        IN  /\ \A i, j \in 1..Len(matched) : i # j => matched[i] # matched[j]
            /\ Range(matched) =
                  {IndicatorAt(i) : i \in {k \in 1..Len(last.keywords) :
                                              HasIndicator(k)}}
            /\ \A i, j \in 1..Len(matched) :
                  i < j => FirstSeen(matched[i]) < FirstSeen(matched[j])
            /\ DOMAIN scores =
                  {wm[c].level : c \in Range(matched) \cap DOMAIN wm}
            /\ \A level \in DOMAIN scores :
                  scores[level] = SumWeights(WeightsOfLevel(matched, level))

\* two different keywords of one indicator: the indicator is listed once and
\* its weight is added once
C24_Witness ==
    /\ IsLiteracy
    /\ Len(last.keywords) >= 2
    /\ last.keywords[1] # last.keywords[2]
    /\ HasIndicator(1) /\ HasIndicator(2)
    /\ IndicatorAt(1) = IndicatorAt(2)
    /\ IndicatorAt(1) \in DOMAIN LOADED_DATA.weight_mapping
    /\ last.ret.matched_indicators = <<IndicatorAt(1)>>
    /\ LET info == LOADED_DATA.weight_mapping[IndicatorAt(1)]
       IN  last.ret.dimension_scores[info.level] = info.absolute_weight

\* the corpus lists the keyword under the domain
ListedUnder(keyword, domain) ==
    \E i \in 1..Len(LOADED_DATA.teaching_corpus) :
        /\ keyword \in Range(LOADED_DATA.teaching_corpus[i].keywords)
        /\ LOADED_DATA.teaching_corpus[i].knowledge_domain = domain

\* the domain is a node when the keyword is handled: a node of the static
\* graph, or a keyword the list names no later than the keyword itself
NodeWhenHandled(keyword, domain) ==
    \/ HasNode(LOADED_DATA.knowledge_graph, domain)
    \/ \E i, j \in 1..Len(last.keywords) :
          j <= i /\ last.keywords[i] = keyword /\ last.keywords[j] = domain

\* what the call added: nodes of the given keywords, and belongs_to edges
\* from a given keyword to a domain of its entries that was a node
OnlyKeywordAdditions(static, enhanced) ==
    /\ (DOMAIN enhanced.node \ DOMAIN static.node) \subseteq Range(last.keywords)
    /\ \A e \in enhanced.adj \ static.adj :
          /\ e[3] = "belongs_to"
          /\ e[1] \in Range(last.keywords)
          /\ ListedUnder(e[1], e[2])
          /\ NodeWhenHandled(e[1], e[2])
    /\ \A k \in Range(last.keywords) :
          \A i \in 1..Len(LOADED_DATA.teaching_corpus) :
             LET domain == LOADED_DATA.teaching_corpus[i].knowledge_domain
             IN  (ListedUnder(k, domain) /\ ~NodeWhenHandled(k, domain)) =>
                    /\ ~HasNode(enhanced, domain) \/ domain \in Range(last.keywords)
                    /\ \A e \in enhanced.adj : ~(e[1] = k /\ e[2] = domain)

(* C25: enhance_with_keywords adds nodes only for the given keywords and     *)
(* edges only of relation belongs_to from a given keyword to a knowledge     *)
(* domain of one of its corpus entries, and only when that domain is already *)
(* a node of the graph being built; a domain that is not a node is skipped   *)
(* without creating a node or an edge; and every node and edge of the static *)
(* graph is present in the returned graph.                                   *)
C25_StaticGraphPlusKeywords ==
    IsEnhance =>
        LET static == LOADED_DATA.knowledge_graph
        IN  /\ OnlyKeywordAdditions(static, last.ret)
            /\ \A n \in DOMAIN static.node :
                  HasNode(last.ret, n) /\ last.ret.node[n] = static.node[n]
            /\ static.adj \subseteq last.ret.adj

\* the results generate_teaching_resource may return for the code as the
\* first call of a process that loaded the data: one per iteration order of
\* the set of extracted tokens
FirstCallResults(data, code) ==
    IF AstRaises(code)
    THEN {ExceptionResult(code, code.parse)}
    ELSE {IF keywords = <<>>
          THEN NoKeywordsResult(code)
          ELSE SuccessResult(data, code, keywords,
                   enhance_with_keywords(data.knowledge_graph, keywords,
                                         data.teaching_corpus)) :
             keywords \in ExtractResults(code, data.keyword_mapping)}

\* the call analysed keywords and stored an enhanced graph
Analysed == Returned /\ "error" \notin DOMAIN last.ret

(* C26: the result generate_teaching_resource returns for a code text is one *)
(* it returns for that text as the first call of the process, whatever       *)
(* snippets were analysed before; the enhanced graph of the request is the   *)
(* static graph enhanced with the request's keywords, and its keyword nodes  *)
(* are keywords of the request.                                              *)
C26_RequestsAreIndependent ==
    (Returned /\ LOADED_DATA # None) =>
        /\ last.ret \in FirstCallResults(csv_files.data, last.code)
        /\ Analysed =>
              /\ enhanced_graph =
                    enhance_with_keywords(csv_files.data.knowledge_graph,
                        last.ret.analyzed_keywords,
                        csv_files.data.teaching_corpus)
              /\ KeywordNodes(enhanced_graph)
                    \subseteq Range(last.ret.analyzed_keywords)

\* the call before left a keyword node that is no keyword of this request;
\* the graph of this request has its own keyword node and not that one
C26_Witness ==
    /\ Analysed
    /\ KeywordNodes(enhanced_graph) # {}
    /\ \E k \in KeywordNodes(last.before) : ~HasNode(enhanced_graph, k)

\* the path follows directed edges of the graph
FollowsEdges(G, path) ==
    \A i \in 1..(Len(path) - 1) :
        \E e \in G.adj : e[1] = path[i] /\ e[2] = path[i + 1]

(* C27: when the seed is in the enhanced graph, every path returned by       *)
(* get_related_knowledge starts at the seed, ends at a non-seed node of the  *)
(* extracted neighbourhood, no two paths at the same one, follows directed   *)
(* edges of the enhanced graph and has between 2 and max_depth + 1 nodes;    *)
(* no target is skipped as unreachable: the number of paths is               *)
(* min(5, number of neighbourhood nodes - 1).                                *)
C27_PathsWellFormed ==
    (IsRelated /\ ~SeedMissing(enhanced_graph, last.keyword)) =>
        LET neighbourhood == {node.id : node \in last.ret.nodes}
        IN  /\ \A path \in last.ret.paths :
                  /\ Len(path) >= 2 /\ Len(path) <= last.max_depth + 1
                  /\ path[1] = last.keyword
                  /\ path[Len(path)] # last.keyword
                  /\ path[Len(path)] \in neighbourhood
                  /\ FollowsEdges(enhanced_graph, path)
            /\ \A p, q \in last.ret.paths :
                  p # q => p[Len(p)] # q[Len(q)]
            /\ Cardinality(last.ret.paths)
                  = Min(PathCap, Cardinality(neighbourhood) - 1)

\* a seed with nodes one and two hops away at the default depth: a path of
\* three nodes, and every other node of the neighbourhood has its path
C27_Witness ==
    /\ IsRelated
    /\ last.max_depth = DefaultMaxDepth
    /\ \E path \in last.ret.paths : Len(path) = 3
    /\ \E path \in last.ret.paths : Len(path) = 2
    /\ Cardinality(last.ret.paths) = Cardinality(last.ret.nodes) - 1

\* the keywords of the last call whose indicator lookup misses
MissedKeywords == {k \in Range(last.keywords) : LookupMiss(k)}

(* C28: a matched record whose indicator lookup misses has the default       *)
(* weight_score 0.1 and so the highest tier: when listed it is in            *)
(* important_knowledge, never in secondary_knowledge, ahead of every record  *)
(* whose resolved absolute_weight is below 0.1; it is left out only when     *)
(* five records of weight 0.1 or more fill important_knowledge.              *)
C28_LookupMissRanksHigh ==
    IsImportance =>
        LET important == last.ret.important_knowledge
            secondary == last.ret.secondary_knowledge
        IN  /\ \A i \in 1..Len(secondary) : ~LookupMiss(secondary[i].keyword)
            /\ \A i \in 1..Len(important) :
                  LookupMiss(important[i].keyword) =>
                     /\ important[i].weight_score = DefaultWeightScore
                     /\ important[i].importance = "high"
                     /\ \A j \in 1..(i - 1) :
                           important[j].weight_score >= DefaultWeightScore
            /\ \A k \in MissedKeywords :
                  \/ \E i \in 1..Len(important) : important[i].keyword = k
                  \/ /\ Len(important) = KnowledgeCap
                     /\ \A i \in 1..Len(important) :
                           important[i].weight_score >= DefaultWeightScore

\* a keyword that resolves below 0.1 in the highest tier, then one whose
\* lookup misses: the record of the second is listed ahead of the first's
C28_Witness ==
    /\ IsImportance
    /\ Len(last.keywords) = 2
    /\ ~LookupMiss(last.keywords[1]) /\ LookupMiss(last.keywords[2])
    /\ Len(last.ret.important_knowledge) >= 2
    /\ last.ret.important_knowledge[1].keyword = last.keywords[2]
    /\ \E i \in 2..Len(last.ret.important_knowledge) :
          /\ last.ret.important_knowledge[i].keyword = last.keywords[1]
          /\ last.ret.important_knowledge[i].importance = "high"
          /\ last.ret.important_knowledge[i].weight_score < DefaultWeightScore
====
